---- MODULE Spec2Model ----
(***************************************************************************)
(* Model of nonlinear_solvers/solvers.py: newton_raphson, bisection and    *)
(* solve.                                                                  *)
(*                                                                         *)
(* Numbers are floats that are whole multiples of one power-of-two unit,    *)
(* written as integers.  The callables f and df are drawn from small       *)
(* families of pure functions whose values make every sum, difference,     *)
(* quotient and halving that the code performs exact in IEEE-754 double    *)
(* arithmetic, so that x - f(x)/df(x) and (a + b)/2 are computed as the    *)
(* code computes them.  eps is expressed in the same unit.                 *)
(*                                                                         *)
(* The products f(a) * f(b) and f(a) * f(c) are the one operation that is  *)
(* not exact at every magnitude: the caller may pass numbers of either     *)
(* magnitude below.                                                        *)
(*   tiny = FALSE : the unit is 1/Scale; products of the values are exact. *)
(*   tiny = TRUE  : the unit is 2^-537 / SubScale; the product of x and y  *)
(*                  units is x*y / SubScale^2 times the smallest           *)
(*                  subnormal 2^-1074 and rounds to zero (keeping no sign  *)
(*                  that a comparison with 0 can see) when that is at most *)
(*                  one half.                                              *)
(***************************************************************************)
EXTENDS Integers, Sequences, FiniteSets, TLC

\* ---------------------------------------------------------------- bounds
\* Number of interval halvings of bisection the model follows.
MaxDepth == 3
\* Largest explicit iteration cap tried besides the default one.
MaxCap == 2

\* Default value of max_its, max_its_n and max_its_b.
DefaultMaxIts == 20

\* With tiny numbers, 2^-537 is SubScale units.
SubScale == 4

RECURSIVE Pow2(_)
Pow2(n) == IF n = 0 THEN 1 ELSE 2 * Pow2(n - 1)

\* One unit of the grid is 1/Scale: the interval [a, b] with end points on
\* multiples of Scale can be halved MaxDepth + 1 times exactly.
Scale == Pow2(MaxDepth + 1)

\* ------------------------------------------------------ python built-ins
Abs(x) == IF x < 0 THEN -x ELSE x

Min(x, y) == IF x < y THEN x ELSE y

Max(x, y) == IF x < y THEN y ELSE x

\* ------------------------------------------------- the caller's callables
\* f : float -> float.  Every value but those of lin is an even number of
\* units, so that it can be divided by 2.
\*   lin :  x - r                         (paired with df = 1 or df = 0)
\*   sat :  2(x - r) clipped to [-h, h]   (linear near its root r)
\*   step:  -h left of r, +h from r on    (sign change, no root)
\*   vee :  2|x - r| - h, at most 4 Scale (same sign far away on both sides)
Roots == {0, 1, Scale \div 4, Scale \div 2, Scale}

Heights == {2, 4 * Scale}

Fs == [kind : {"lin"}, r : Roots, h : {0}]
        \cup [kind : {"sat"}, r : Roots, h : Heights]
        \cup [kind : {"step"}, r : Roots, h : {2}]
        \cup [kind : {"vee"}, r : Roots, h : {0, 2}]

F(fd, x) ==
    CASE fd.kind = "lin"  -> x - fd.r
      [] fd.kind = "sat"  -> Max(-fd.h, Min(fd.h, 2 * (x - fd.r)))
      [] fd.kind = "step" -> IF x < fd.r THEN -fd.h ELSE fd.h
      [] fd.kind = "vee"  -> Min(4 * Scale, 2 * Abs(x - fd.r) - fd.h)

\* df : float -> float, not required to be the derivative of f.
\*   const : the constant d
\*   zeroat: 2 everywhere except 0 at the point z
DFs == [kind : {"const"}, d : {0, 1, 2}, z : {0}]
         \cup [kind : {"zeroat"}, d : {2}, z : {0, Scale \div 2}]

DF(dd, x) == IF dd.kind = "zeroat" /\ x = dd.z THEN 0 ELSE dd.d

\* Arguments of the calls.
Points == {-Scale, 0, Scale}

Epss == {0, 2}

Caps == (0 .. MaxCap) \cup {DefaultMaxIts}

Entries == {"newton_raphson", "bisection", "solve"}

\* the pairs of callables for which f(x) / df(x) is exact
Exact(fd, dd) == fd.kind = "lin" => (dd.kind = "const" /\ dd.d \in {0, 1})

\* ------------------------------------------------------------- outcomes
None == [kind |-> "none", val |-> 0]

Return(v) == [kind |-> "return", val |-> v]

ReturnNone == [kind |-> "return_none", val |-> 0]

Raise(e) == [kind |-> e, val |-> 0]

\* ------------------------------------------------------------------ state
VARIABLES
    entry,        \* the function the caller invoked
    tiny,         \* the magnitude of the numbers the caller passes
    f, df,        \* the callables passed in
    x_0, x_1,     \* starting point / bracket passed in
    eps,          \* tolerance passed in
    max_its_n,    \* cap passed for newton_raphson
    max_its_b,    \* cap passed for bisection
    pc,           \* position in the code
    max_its,      \* parameter max_its of the solver that is running
    r, x_r, x_r_plus_1,    \* locals of newton_raphson
    a, b, c, its,          \* locals of bisection
    n_out, b_out, s_out,   \* how newton_raphson, bisection, solve ended
    notices,      \* what has been printed
    nr_its,       \* history: executions of the loop body of newton_raphson
    bodies,       \* history: executions of the loop body of bisection started
    a0, b0,       \* history: the bracket bisection was called with
    b_fevals      \* history: evaluations of f made by bisection

vars == <<entry, tiny, f, df, x_0, x_1, eps, max_its_n, max_its_b, pc, max_its,
          r, x_r, x_r_plus_1, a, b, c, its, n_out, b_out, s_out, notices,
          nr_its, bodies, a0, b0, b_fevals>>

args == <<entry, tiny, f, df, x_0, x_1, eps, max_its_n, max_its_b>>

nr_locals == <<r, x_r, x_r_plus_1, nr_its>>

b_locals == <<a, b, c, its, bodies, a0, b0, b_fevals>>

Init ==
    /\ entry \in Entries
    /\ tiny \in (IF entry = "newton_raphson" THEN {FALSE} ELSE BOOLEAN)
    /\ f \in Fs
    /\ df \in (IF entry = "bisection" THEN {[kind |-> "const", d |-> 1, z |-> 0]}
                                      ELSE {dd \in DFs : Exact(f, dd)})
    /\ x_0 \in Points
    /\ x_1 \in (IF entry = "newton_raphson" THEN {0} ELSE Points)
    /\ eps \in Epss
    /\ max_its_n \in (IF entry = "bisection" THEN {DefaultMaxIts} ELSE Caps)
    /\ max_its_b \in (IF entry = "newton_raphson" THEN {DefaultMaxIts} ELSE Caps)
    /\ pc = "call"
    /\ max_its = 0
    /\ r = 0 /\ x_r = 0 /\ x_r_plus_1 = 0
    /\ a = 0 /\ b = 0 /\ c = 0 /\ its = 0
    /\ n_out = None /\ b_out = None /\ s_out = None
    /\ notices = << >>
    /\ nr_its = 0 /\ bodies = 0 /\ a0 = 0 /\ b0 = 0 /\ b_fevals = 0

\* --------------------------------------------------------- newton_raphson
\* x - f(x) / df(x); the quotient is exact for the callables of Fs and DFs.
g(x) == x - (F(f, x) \div DF(df, x))

\* f(x) / df(x) raises ZeroDivisionError
gFaults(x) == DF(df, x) = 0

\* the loop condition with the cap off by one
NRContinueOffByOne(xr1, xr, e, rr, m) == Abs(xr1 - xr) > e /\ rr <= m

\* the loop condition
NRContinue(xr1, xr, e, rr, m) == Abs(xr1 - xr) > e /\ rr < m

\* the test after the loop
NRFailed(rr, m) == rr = m

\* where control goes when newton_raphson ends
NRDone(out) ==
    /\ n_out' = out
    /\ pc' = IF entry = "solve" THEN "s_after_newton" ELSE "done"

\* the caller invokes newton_raphson(f, df, x_0, eps, max_its_n)
CallNewton ==
    /\ pc = "call" /\ entry = "newton_raphson"
    /\ pc' = "nr_init"
    /\ max_its' = max_its_n
    /\ UNCHANGED <<args, nr_locals, b_locals, n_out, b_out, s_out, notices>>

\* r = -1; x_r = x_0; x_r_plus_1 = g(x_r)
NRInit ==
    /\ pc = "nr_init"
    /\ IF gFaults(x_0)
       THEN /\ r' = -1 /\ x_r' = x_0
            /\ NRDone(Raise("ZeroDivisionError"))
            /\ UNCHANGED <<x_r_plus_1>>
       ELSE /\ r' = -1 /\ x_r' = x_0 /\ x_r_plus_1' = g(x_0)
            /\ pc' = "nr_loop"
            /\ UNCHANGED n_out
    /\ UNCHANGED <<args, max_its, nr_its, b_locals, b_out, s_out, notices>>

\* one execution of the body of the while loop
NRLoop ==
    /\ pc = "nr_loop"
    /\ NRContinue(x_r_plus_1, x_r, eps, r, max_its)
    /\ r' = r + 1
    /\ x_r' = x_r_plus_1
    /\ nr_its' = nr_its + 1
    /\ IF gFaults(x_r_plus_1)
       THEN /\ NRDone(Raise("ZeroDivisionError"))
            /\ UNCHANGED x_r_plus_1
       ELSE /\ x_r_plus_1' = g(x_r_plus_1)
            /\ UNCHANGED <<pc, n_out>>
    /\ UNCHANGED <<args, max_its, b_locals, b_out, s_out, notices>>

\* the loop condition is false: raise ConvergenceError or return x_r_plus_1
NRExit ==
    /\ pc = "nr_loop"
    /\ ~NRContinue(x_r_plus_1, x_r, eps, r, max_its)
    /\ IF NRFailed(r, max_its)
       THEN NRDone(Raise("ConvergenceError"))
       ELSE NRDone(Return(x_r_plus_1))
    /\ UNCHANGED <<args, max_its, nr_locals, b_locals, b_out, s_out, notices>>

\* -------------------------------------------------------------- bisection
\* (a + b) / 2, exact while the end points are even multiples of the unit
Mid(lo, hi) == (lo + hi) \div 2

\* the loop condition
BisContinue(fd, cc, e) == Abs(F(fd, cc)) > e

\* x * y in double arithmetic, up to the rounding of a nonzero result
FMul(x, y) ==
    IF tiny /\ 2 * Abs(x * y) <= SubScale * SubScale THEN 0 ELSE x * y

\* the bracket test that lets a zero at an end point through
BadBracketStrict(fd, lo, hi) == FMul(F(fd, lo), F(fd, hi)) > 0

\* the bracket test at the top of the loop body
BadBracket(fd, lo, hi) == FMul(F(fd, lo), F(fd, hi)) >= 0

\* the test that sends the root to the left half
LeftHalf(fd, lo, cc) == FMul(F(fd, lo), F(fd, cc)) < 0

\* the test after the loop that lets its = max_its pass
BisFailedStrict(n, m) == n > m

\* the test after the loop
BisFailed(n, m) == n >= m

\* where control goes when bisection ends
BisDone(out) ==
    /\ b_out' = out
    /\ pc' = IF entry = "solve" THEN "s_after_bisection" ELSE "done"

\* the caller invokes bisection(f, x_0, x_1, eps, max_its_b)
CallBisection ==
    /\ pc = "call" /\ entry = "bisection"
    /\ pc' = "b_init"
    /\ a' = x_0 /\ b' = x_1
    /\ a0' = x_0 /\ b0' = x_1
    /\ max_its' = max_its_b
    /\ UNCHANGED <<args, nr_locals, c, its, bodies, b_fevals, n_out, b_out,
                   s_out, notices>>

\* its = 0; c = (a + b) / 2
BisInit ==
    /\ pc = "b_init"
    /\ its' = 0
    /\ c' = Mid(a, b)
    /\ pc' = "b_loop"
    /\ UNCHANGED <<args, max_its, nr_locals, a, b, bodies, a0, b0, b_fevals,
                   n_out, b_out, s_out, notices>>

\* one execution of the body of the while loop: the bracket test, then the
\* exact-zero break, or the move of one end point to the midpoint
BisBody ==
    /\ pc = "b_loop"
    /\ BisContinue(f, c, eps)
    /\ bodies < MaxDepth
    /\ bodies' = bodies + 1
    /\ IF BadBracket(f, a, b)
       THEN /\ BisDone(Raise("ValueError"))
            /\ b_fevals' = b_fevals + 3
            /\ UNCHANGED <<a, b, c, its>>
       ELSE LET c1 == Mid(a, b) IN
            IF F(f, c1) = 0
            THEN /\ c' = c1
                 /\ pc' = "b_after"
                 /\ b_fevals' = b_fevals + 4
                 /\ UNCHANGED <<a, b, its, b_out>>
            ELSE LET a1 == IF LeftHalf(f, a, c1) THEN a ELSE c1
                     b1 == IF LeftHalf(f, a, c1) THEN c1 ELSE b
                 IN  /\ a' = a1 /\ b' = b1
                     /\ c' = Mid(a1, b1)
                     /\ its' = its + 1
                     /\ b_fevals' = b_fevals + 6
                     /\ UNCHANGED <<pc, b_out>>
    /\ UNCHANGED <<args, max_its, nr_locals, a0, b0, n_out, s_out, notices>>

\* the loop condition is false
BisLoopExit ==
    /\ pc = "b_loop"
    /\ ~BisContinue(f, c, eps)
    /\ pc' = "b_after"
    /\ b_fevals' = b_fevals + 1
    /\ UNCHANGED <<args, max_its, nr_locals, a, b, c, its, bodies, a0, b0,
                   n_out, b_out, s_out, notices>>

\* after the loop: raise ConvergenceError or return c
BisAfter ==
    /\ pc = "b_after"
    /\ IF BisFailed(its, max_its)
       THEN BisDone(Raise("ConvergenceError"))
       ELSE BisDone(Return(c))
    /\ UNCHANGED <<args, max_its, nr_locals, b_locals, n_out, s_out, notices>>

\* ------------------------------------------------------------------ solve
\* an outer handler that catches every exception
SolveCatchesNewtonAny(e) == e \in {"ConvergenceError", "ZeroDivisionError"}

\* the exceptions of newton_raphson that solve handles
SolveCatchesNewton(e) == e = "ConvergenceError"

\* an inner handler that catches every exception
SolveCatchesBisectionAny(e) == e \in {"ValueError", "ConvergenceError"}

\* the exceptions of bisection that solve handles
SolveCatchesBisection(e) == e = "ValueError"

\* the cap solve passes to bisection
SolveBisectionCap(mn, mb) == mb

\* print("Trying Newton's Method"); newton_raphson(f, df, x_0, eps, max_its_n)
SolveStart ==
    /\ pc = "call" /\ entry = "solve"
    /\ notices' = Append(notices, "Trying Newton's Method")
    /\ max_its' = max_its_n
    /\ pc' = "nr_init"
    /\ UNCHANGED <<args, nr_locals, b_locals, n_out, b_out, s_out>>

\* the else clause of the outer try without its return statement
SolveNewtonWorkedNoReturn ==
    /\ pc = "s_after_newton"
    /\ n_out.kind = "return"
    /\ notices' = Append(notices, "Newton worked")
    /\ s_out' = ReturnNone
    /\ pc' = "done"
    /\ UNCHANGED <<args, max_its, nr_locals, b_locals, n_out, b_out>>

\* newton_raphson returned: the else clause of the outer try
SolveNewtonWorked ==
    /\ pc = "s_after_newton"
    /\ n_out.kind = "return"
    /\ notices' = Append(notices, "Newton worked")
    /\ s_out' = Return(n_out.val)
    /\ pc' = "done"
    /\ UNCHANGED <<args, max_its, nr_locals, b_locals, n_out, b_out>>

\* newton_raphson raised an exception the outer try handles: fall back to
\* bisection(f, x_0, x_1, eps, max_its_b)
SolveNewtonFailed ==
    /\ pc = "s_after_newton"
    /\ n_out.kind # "return"
    /\ SolveCatchesNewton(n_out.kind)
    /\ notices' = notices \o <<"Newton did not work", "Trying Bisection method">>
    /\ a' = x_0 /\ b' = x_1
    /\ a0' = x_0 /\ b0' = x_1
    /\ max_its' = SolveBisectionCap(max_its_n, max_its_b)
    /\ pc' = "b_init"
    /\ UNCHANGED <<args, nr_locals, c, its, bodies, b_fevals, n_out, b_out,
                   s_out>>

\* newton_raphson raised an exception the outer try does not handle
SolveNewtonPropagates ==
    /\ pc = "s_after_newton"
    /\ n_out.kind # "return"
    /\ ~SolveCatchesNewton(n_out.kind)
    /\ s_out' = Raise(n_out.kind)
    /\ pc' = "done"
    /\ UNCHANGED <<args, max_its, nr_locals, b_locals, n_out, b_out, notices>>

\* bisection returned: the else clause of the inner try
SolveBisectionWorked ==
    /\ pc = "s_after_bisection"
    /\ b_out.kind = "return"
    /\ notices' = Append(notices, "Bisection worked")
    /\ s_out' = Return(b_out.val)
    /\ pc' = "done"
    /\ UNCHANGED <<args, max_its, nr_locals, b_locals, n_out, b_out>>

\* bisection raised an exception the inner try handles: solve falls off its
\* end and returns None
SolveBisectionFailed ==
    /\ pc = "s_after_bisection"
    /\ b_out.kind # "return"
    /\ SolveCatchesBisection(b_out.kind)
    /\ notices' = Append(notices, "Bisection did not work")
    /\ s_out' = ReturnNone
    /\ pc' = "done"
    /\ UNCHANGED <<args, max_its, nr_locals, b_locals, n_out, b_out>>

\* bisection raised an exception the inner try does not handle
SolveBisectionPropagates ==
    /\ pc = "s_after_bisection"
    /\ b_out.kind # "return"
    /\ ~SolveCatchesBisection(b_out.kind)
    /\ s_out' = Raise(b_out.kind)
    /\ pc' = "done"
    /\ UNCHANGED <<args, max_its, nr_locals, b_locals, n_out, b_out, notices>>

\* ---------------------------------------------------------- specification
Next ==
    \/ CallNewton
    \/ NRInit
    \/ NRLoop
    \/ NRExit
    \/ CallBisection
    \/ BisInit
    \/ BisBody
    \/ BisLoopExit
    \/ BisAfter
    \/ SolveStart
    \/ SolveNewtonWorked
    \/ SolveNewtonFailed
    \/ SolveNewtonPropagates
    \/ SolveBisectionWorked
    \/ SolveBisectionFailed
    \/ SolveBisectionPropagates

Spec == Init /\ [][Next]_vars

\* ------------------------------------------------------------ sanity
TypeOK ==
    /\ pc \in {"call", "nr_init", "nr_loop", "b_init", "b_loop", "b_after",
               "s_after_newton", "s_after_bisection", "done"}
    /\ n_out.kind \in {"none", "return", "ConvergenceError", "ZeroDivisionError"}
    /\ b_out.kind \in {"none", "return", "ConvergenceError", "ValueError"}
    /\ s_out.kind \in {"none", "return", "return_none", "ConvergenceError",
                       "ZeroDivisionError"}

\* every midpoint the model computes is exact
MidpointsExact == pc \in {"b_init", "b_loop"} => (a + b) % 2 = 0

\* ---------------------------------------------------------------- claims
\* bisection has been entered
BisStarted == pc \in {"b_init", "b_loop", "b_after"} \/ b_out.kind # "none"

\* C1: when newton_raphson returns a value, solve returns exactly that value,
\* bisection is never started (no f evaluation on its behalf) and the only
\* notices are "Trying Newton's Method" followed by "Newton worked".
C1_NewtonResultReturned ==
    (entry = "solve" /\ n_out.kind = "return") =>
        /\ pc \in {"s_after_newton", "done"}
        /\ ~BisStarted /\ bodies = 0 /\ b_fevals = 0
        /\ pc = "s_after_newton" => notices = <<"Trying Newton's Method">>
        /\ pc = "done" =>
              /\ s_out = Return(n_out.val)
              /\ notices = <<"Trying Newton's Method", "Newton worked">>

C1_Witness ==
    /\ entry = "solve" /\ pc = "done" /\ n_out.kind = "return"
    /\ nr_its >= 1 /\ s_out.val # x_0

\* C2: when newton_raphson raises ConvergenceError, solve runs
\* bisection(f, x_0, x_1, eps, max_its_b) and ends as bisection ends, except
\* that ValueError becomes a return of None; a ConvergenceError of bisection
\* propagates.
C2_FallbackOutcome ==
    (entry = "solve" /\ n_out.kind = "ConvergenceError") =>
        /\ pc # "s_after_newton" =>
              BisStarted /\ a0 = x_0 /\ b0 = x_1 /\ max_its = max_its_b
        /\ pc = "done" =>
              /\ b_out.kind \in {"return", "ValueError", "ConvergenceError"}
              /\ b_out.kind = "return" => s_out = Return(b_out.val)
              /\ b_out.kind = "ValueError" => s_out = ReturnNone
              /\ b_out.kind = "ConvergenceError" => s_out = Raise("ConvergenceError")

C2_Witness ==
    /\ entry = "solve" /\ pc = "done" /\ n_out.kind = "ConvergenceError"
    /\ b_out.kind = "ConvergenceError" /\ s_out = Raise("ConvergenceError")
    /\ max_its_b # max_its_n /\ bodies >= 1

\* C3: with a valid bracket the loop body of bisection is executed at most
\* max_its times.
C3_BodiesWithinCap ==
    (BisStarted /\ F(f, a0) * F(f, b0) < 0 /\ eps >= 0 /\ max_its >= 0) =>
        bodies <= max_its

\* C4: newton_raphson raises ConvergenceError only when the last step exceeds
\* eps, and bisection raises ConvergenceError only when |f(c)| exceeds eps.
C4_ErrorMeansNotConverged ==
    /\ n_out.kind = "ConvergenceError" => Abs(x_r_plus_1 - x_r) > eps
    /\ b_out.kind = "ConvergenceError" => Abs(F(f, c)) > eps

\* C5: when f is zero at the first midpoint, bisection returns that midpoint
\* with its iteration counter at 0, whatever max_its is.
C5_ExactZeroReturns ==
    (b_out.kind # "none" /\ F(f, Mid(a0, b0)) = 0) =>
        b_out = Return(Mid(a0, b0)) /\ its = 0

\* C6 as stated: when Newton fails (ConvergenceError or the arithmetic fault
\* of df = 0) and f(x_0), f(x_1) have the same sign, solve returns None.
C6_Original ==
    (entry = "solve" /\ pc = "done"
        /\ n_out.kind \in {"ConvergenceError", "ZeroDivisionError"}
        /\ F(f, x_0) * F(f, x_1) > 0) =>
        s_out = ReturnNone

\* C6: when newton_raphson raises ConvergenceError, f(x_0) * f(x_1) >= 0 and
\* |f((x_0 + x_1) / 2)| > eps, bisection raises ValueError in its first loop
\* body and solve returns None after "Bisection did not work"; when
\* newton_raphson raises ZeroDivisionError, the fault leaves solve and
\* bisection is not started.
C6_NoValueOnBadBracket ==
    /\ (entry = "solve" /\ n_out.kind = "ConvergenceError"
           /\ F(f, x_0) * F(f, x_1) >= 0
           /\ Abs(F(f, Mid(x_0, x_1))) > eps) =>
          /\ bodies <= 1
          /\ b_out.kind \in {"none", "ValueError"}
          /\ pc = "done" =>
                /\ s_out = ReturnNone
                /\ notices = <<"Trying Newton's Method", "Newton did not work",
                               "Trying Bisection method", "Bisection did not work">>
    /\ (entry = "solve" /\ n_out.kind = "ZeroDivisionError") =>
          /\ ~BisStarted /\ b_fevals = 0
          /\ pc = "done" => s_out = Raise("ZeroDivisionError")

C6_Witness ==
    /\ entry = "solve" /\ pc = "done" /\ n_out.kind = "ConvergenceError"
    /\ F(f, x_0) * F(f, x_1) > 0
    /\ s_out = ReturnNone /\ b_out.kind = "ValueError"

\* C7 as stated: for every bracket with f(a) * f(b) >= 0, bisection ends by
\* raising ValueError in its first loop body.
C7_Original ==
    (b_out.kind # "none" /\ F(f, a0) * F(f, b0) >= 0) =>
        /\ b_out.kind = "ValueError"
        /\ bodies = 1 /\ a = a0 /\ b = b0 /\ its = 0

\* C7: for every bracket with f(a) * f(b) >= 0 whose midpoint has
\* |f((a + b) / 2)| > eps, bisection raises ValueError in the first execution
\* of the loop body, before a, b or its change, and neither returns a value
\* nor raises ConvergenceError.
C7_BadBracketRaises ==
    (BisStarted /\ F(f, a0) * F(f, b0) >= 0 /\ Abs(F(f, Mid(a0, b0))) > eps) =>
        /\ a = a0 /\ b = b0 /\ its = 0
        /\ pc # "b_after"
        /\ b_out.kind \in {"none", "ValueError"}
        /\ bodies = (IF b_out.kind = "ValueError" THEN 1 ELSE 0)

C7_Witness ==
    /\ entry = "bisection" /\ pc = "done" /\ b_out.kind = "ValueError"
    /\ F(f, a0) * F(f, b0) >= 0 /\ a0 # b0 /\ bodies = 1

\* C8: when bisection returns c, c is the midpoint of the final interval,
\* |f(c)| <= eps, fewer than max_its interval updates were made, and with a
\* valid initial bracket c lies between the initial a and b.
C8_ReturnPostcondition ==
    (b_out.kind = "return" /\ eps >= 0) =>
        /\ b_out.val = c
        /\ c = Mid(a, b)
        /\ Abs(F(f, c)) <= eps
        /\ its < max_its
        /\ F(f, a0) * F(f, b0) < 0 => (Min(a0, b0) < c /\ c < Max(a0, b0))

C8_Witness ==
    /\ b_out.kind = "return" /\ its >= 1 /\ F(f, a0) * F(f, b0) < 0
    /\ its = max_its - 1

\* the sequence x_0, x_{k+1} = x_k - f(x_k) / df(x_k)
RECURSIVE X(_)
X(k) == IF k = 0 THEN x_0 ELSE g(X(k - 1))

StepSize(k) == Abs(X(k + 1) - X(k))

C10_SignChangeKept ==
    /\ (pc \in {"b_loop", "b_after"} /\ bodies >= 1) => F(f, a) * F(f, b) < 0
    /\ b_out.kind = "ValueError" => bodies = 1

====
